---------------------------- MODULE Spec2Model ----------------------------
(***************************************************************************)
(* SwitchGain: the notebook algo_trading_strategies.ipynb as a state       *)
(* machine.  One run of the notebook is modelled: the fetch cell binds     *)
(* `data`, the momentum cell and the two mean-reversion cells add their    *)
(* indicator columns to it, and the two plot cells build `figure`.         *)
(*                                                                         *)
(* Numbers.  A cell of the data frame is a float64.  It is modelled as an  *)
(* exact real extended by NaN and the two infinities; rounding is not      *)
(* modelled.  A finite value is a + b*sqrt(r) with a, b, r rational (the   *)
(* rolling standard deviation is a square root), or, for the RSI, a        *)
(* quotient n/d of two arbitrary-precision naturals (the exponential       *)
(* average over t rows has denominator 14^t).                              *)
(***************************************************************************)
EXTENDS Integers, Sequences, FiniteSets

-----------------------------------------------------------------------------
(* Rationals n/d, d > 0, in lowest terms.                                  *)

Abs(x) == IF x < 0 THEN -x ELSE x

RECURSIVE Gcd(_, _)
Gcd(a, b) == IF b = 0 THEN a ELSE Gcd(b, a % b)

Rat(n, d) ==
    LET s == IF d < 0 THEN -1 ELSE 1
        g == Gcd(Abs(n), Abs(d))
    IN  [n |-> (s * n) \div g, d |-> (s * d) \div g]

RatInt(i) == [n |-> i, d |-> 1]

RatAdd(p, q) ==
    LET g == Gcd(p.d, q.d)
    IN  Rat(p.n * (q.d \div g) + q.n * (p.d \div g), p.d * (q.d \div g))

RatNeg(p) == [n |-> -p.n, d |-> p.d]

RatSub(p, q) == RatAdd(p, RatNeg(q))

RatMul(p, q) ==
    LET g1 == Gcd(Abs(p.n), q.d)
        g2 == Gcd(Abs(q.n), p.d)
    IN  Rat((p.n \div g1) * (q.n \div g2), (p.d \div g2) * (q.d \div g1))

RatInv(p) == Rat(p.d, p.n)

RatSign(p) == IF p.n > 0 THEN 1 ELSE IF p.n < 0 THEN -1 ELSE 0

RatCmp(p, q) == RatSign(RatSub(p, q))

-----------------------------------------------------------------------------
(* Arbitrary-precision naturals: little-endian limbs in base Base, no      *)
(* leading zero limb; zero is the empty sequence.                          *)

Base == 100 * 100

RECURSIVE BigFromInt(_)
BigFromInt(i) == IF i = 0 THEN << >> ELSE <<i % Base>> \o BigFromInt(i \div Base)

RECURSIVE BigAddC(_, _, _)
BigAddC(x, y, carry) ==
    IF x = << >> /\ y = << >>
    THEN BigFromInt(carry)
    ELSE LET hx == IF x = << >> THEN 0 ELSE Head(x)
             hy == IF y = << >> THEN 0 ELSE Head(y)
             tx == IF x = << >> THEN << >> ELSE Tail(x)
             ty == IF y = << >> THEN << >> ELSE Tail(y)
             s  == hx + hy + carry
         IN  <<s % Base>> \o BigAddC(tx, ty, s \div Base)

BigAdd(x, y) == BigAddC(x, y, 0)

RECURSIVE BigMulC(_, _, _)
BigMulC(x, m, carry) ==
    IF x = << >>
    THEN BigFromInt(carry)
    ELSE LET s == Head(x) * m + carry
         IN  <<s % Base>> \o BigMulC(Tail(x), m, s \div Base)

(* x * m for a small natural m *)
BigMul(x, m) == IF m = 0 \/ x = << >> THEN << >> ELSE BigMulC(x, m, 0)

RECURSIVE BigSubB(_, _, _)
BigSubB(x, y, borrow) ==
    IF x = << >>
    THEN << >>
    ELSE LET hy == IF y = << >> THEN 0 ELSE Head(y)
             ty == IF y = << >> THEN << >> ELSE Tail(y)
             s  == Head(x) - hy - borrow
         IN  IF s < 0
             THEN <<s + Base>> \o BigSubB(Tail(x), ty, 1)
             ELSE <<s>> \o BigSubB(Tail(x), ty, 0)

RECURSIVE BigTrim(_)
BigTrim(x) ==
    IF x = << >> THEN << >>
    ELSE IF x[Len(x)] = 0 THEN BigTrim(SubSeq(x, 1, Len(x) - 1))
    ELSE x

(* x - y for x >= y *)
BigSub(x, y) == BigTrim(BigSubB(x, y, 0))

RECURSIVE BigCmpAt(_, _, _)
BigCmpAt(x, y, i) ==
    IF i = 0 THEN 0
    ELSE IF x[i] > y[i] THEN 1
    ELSE IF x[i] < y[i] THEN -1
    ELSE BigCmpAt(x, y, i - 1)

BigCmp(x, y) ==
    IF Len(x) > Len(y) THEN 1
    ELSE IF Len(x) < Len(y) THEN -1
    ELSE BigCmpAt(x, y, Len(x))

-----------------------------------------------------------------------------
(* float64 values                                                          *)

NaN == [k |-> "nan"]
PInf == [k |-> "pinf"]
NInf == [k |-> "ninf"]

Zero == RatInt(0)

(* a + b*sqrt(r); the rational case is kept as b = 0, r = 0 *)
Surd(a, b, r) ==
    IF b.n = 0 \/ r.n = 0
    THEN [k |-> "fin", a |-> a, b |-> Zero, r |-> Zero]
    ELSE [k |-> "fin", a |-> a, b |-> b, r |-> r]

Real(q) == Surd(q, Zero, Zero)

Num(i) == Real(RatInt(i))

(* n/d with arbitrary-precision naturals n, d (d > 0) *)
Quot(n, d) == [k |-> "big", n |-> n, d |-> d]

IsNaN(x) == x.k = "nan"

IsFinite(x) == x.k \in {"fin", "big"}

(* the radicand shared by two finite operands *)
Radicand(x, y) == IF x.b.n # 0 THEN x.r ELSE y.r

(* sign of a + b*sqrt(r), r >= 0 *)
Sign(x) ==
    LET sa == RatSign(x.a)
        sb == RatSign(x.b)
        a2 == RatMul(x.a, x.a)
        b2r == RatMul(x.b, RatMul(x.b, x.r))
        c  == RatCmp(a2, b2r)
    IN  IF sb = 0 THEN sa
        ELSE IF sa = 0 THEN sb
        ELSE IF sa = sb THEN sa
        ELSE IF c > 0 THEN sa
        ELSE IF c < 0 THEN sb
        ELSE 0

Neg(x) ==
    CASE x.k = "nan" -> NaN
      [] x.k = "pinf" -> NInf
      [] x.k = "ninf" -> PInf
      [] OTHER -> Surd(RatNeg(x.a), RatNeg(x.b), x.r)

Add(x, y) ==
    CASE IsNaN(x) \/ IsNaN(y) -> NaN
      [] x.k = "pinf" -> IF y.k = "ninf" THEN NaN ELSE PInf
      [] x.k = "ninf" -> IF y.k = "pinf" THEN NaN ELSE NInf
      [] y.k \in {"pinf", "ninf"} -> y
      [] OTHER -> Surd(RatAdd(x.a, y.a), RatAdd(x.b, y.b), Radicand(x, y))

Sub(x, y) == Add(x, Neg(y))

(* product of two finite values *)
Mul(x, y) ==
    IF IsNaN(x) \/ IsNaN(y) THEN NaN
    ELSE LET r == Radicand(x, y)
         IN  Surd(RatAdd(RatMul(x.a, y.a), RatMul(RatMul(x.b, y.b), r)),
                  RatAdd(RatMul(x.a, y.b), RatMul(x.b, y.a)), r)

(* x / y for finite x, y: IEEE division, x/0 is NaN or an infinity *)
Div(x, y) ==
    IF IsNaN(x) \/ IsNaN(y) THEN NaN
    ELSE IF Sign(y) = 0
    THEN (IF Sign(x) = 0 THEN NaN ELSE IF Sign(x) > 0 THEN PInf ELSE NInf)
    ELSE LET r   == Radicand(x, y)
             den == RatSub(RatMul(y.a, y.a), RatMul(RatMul(y.b, y.b), r))
             inv == RatInv(den)
             cj  == Surd(y.a, RatNeg(y.b), r)
             p   == Mul(x, cj)
         IN  Surd(RatMul(p.a, inv), RatMul(p.b, inv), r)

(* -1, 0, 1, or 2 when unordered (a NaN operand) *)
Cmp(x, y) ==
    CASE IsNaN(x) \/ IsNaN(y) -> 2
      [] x.k = "pinf" -> IF y.k = "pinf" THEN 0 ELSE 1
      [] x.k = "ninf" -> IF y.k = "ninf" THEN 0 ELSE -1
      [] y.k = "pinf" -> -1
      [] y.k = "ninf" -> 1
      [] x.k = "big" -> IF y.a.n < 0 THEN 1
                        ELSE BigCmp(BigMul(x.n, y.a.d), BigMul(x.d, y.a.n))
      [] OTHER -> Sign(Sub(x, y))

Lt(x, y) == Cmp(x, y) = -1

Gt(x, y) == Cmp(x, y) = 1

Eq(x, y) == Cmp(x, y) = 0

-----------------------------------------------------------------------------
(* pandas: a column is a sequence of values, row p = 1..n (the code's      *)
(* 0-based row t is p - 1).  Every operation below is positional: none     *)
(* reads the index.                                                        *)

Rows(col) == 1 .. Len(col)

(* the rows of a column as a sequence *)
Column(f) == f \o << >>

(* Series.shift(periods) *)
Shift(col, periods) ==
    Column([p \in Rows(col) |-> IF p <= periods THEN NaN ELSE col[p - periods]])

(* Series.ffill(): a missing value takes the last value before it *)
RECURSIVE FFillFrom(_, _, _)
FFillFrom(col, p, last) ==
    IF p > Len(col) THEN << >>
    ELSE IF IsNaN(col[p]) THEN <<last>> \o FFillFrom(col, p + 1, last)
    ELSE <<col[p]>> \o FFillFrom(col, p + 1, col[p])

FFill(col) == FFillFrom(col, 1, NaN)

(* data / shifted - 1 *)
ChangeOver(col, shifted) ==
    Column([p \in Rows(col) |-> Sub(Div(col[p], shifted[p]), Num(1))])

(* the padded column against itself `periods` rows earlier *)
PctChangeFilled(filled, periods) == ChangeOver(filled, Shift(filled, periods))

(* Series.shift(-periods) *)
ShiftBack(col, periods) ==
    Column([p \in Rows(col) |->
              IF p + periods > Len(col) THEN NaN ELSE col[p + periods]])

(* Variant: the change to the row `periods` later, data.shift(-periods) /  *)
(* data - 1.  C6 tells it from the code: it reads rows after t.            *)
PctChange_Forward(col, periods) ==
    ChangeOver(ShiftBack(FFill(col), periods), FFill(col))

(* Series.pct_change(periods): fill_method is left at its default, which   *)
(* pads, then data / data.shift(periods) - 1                               *)
PctChange(col, periods) == PctChangeFilled(FFill(col), periods)

(* col - shifted *)
Minus(col, shifted) == Column([p \in Rows(col) |-> Sub(col[p], shifted[p])])

(* Series.diff(periods) *)
Diff(col, periods) == Minus(col, Shift(col, periods))

(* the trailing window of `window` rows ending at row p *)
WindowAt(col, p, window) == SubSeq(col, p - window + 1, p)

HasNaN(xs) == \E i \in 1 .. Len(xs) : IsNaN(xs[i])

RECURSIVE SumOf(_)
SumOf(xs) == IF xs = << >> THEN Num(0) ELSE Add(Head(xs), SumOf(Tail(xs)))

MeanOf(xs) == Div(SumOf(xs), Num(Len(xs)))

Square(x) == Mul(x, x)

(* the squared deviations of xs from m *)
SquaredDeviations(xs, m) == Column([i \in 1 .. Len(xs) |-> Square(Sub(xs[i], m))])

(* sample variance, ddof = 1 *)
VarOf(xs) == Div(SumOf(SquaredDeviations(xs, MeanOf(xs))), Num(Len(xs) - 1))

(* numpy.sqrt of a non-negative rational *)
Sqrt(x) == IF IsNaN(x) THEN NaN ELSE Surd(Zero, RatInt(1), x.a)

(* mean of one window; min_periods defaults to window, so a window that    *)
(* holds a NaN has too few observations                                    *)
WindowMean(xs) == IF HasNaN(xs) THEN NaN ELSE MeanOf(xs)

(* Variant: rolling(window, min_periods=1).mean(), which averages the rows *)
(* there are while the window is not full.  C3 tells it from the code in   *)
(* the warm-up rows.                                                       *)
RollingMean_MinPeriods1(col, window) ==
    Column([p \in Rows(col) |->
              IF p < window THEN WindowMean(SubSeq(col, 1, p))
              ELSE WindowMean(WindowAt(col, p, window))])

(* Series.rolling(window).mean(): NaN while fewer than `window` rows *)
RollingMean(col, window) ==
    Column([p \in Rows(col) |->
              IF p < window THEN NaN ELSE WindowMean(WindowAt(col, p, window))])

(* standard deviation of one window, ddof = 1 *)
WindowStd(xs) == IF HasNaN(xs) THEN NaN ELSE Sqrt(VarOf(xs))

(* Series.rolling(window).std() *)
RollingStd(col, window) ==
    Column([p \in Rows(col) |->
              IF p < window THEN NaN ELSE WindowStd(WindowAt(col, p, window))])

-----------------------------------------------------------------------------
(* ta.momentum.RSIIndicator(close, window).rsi(), fillna = False           *)

(* diff.where(diff > 0, 0.0): a NaN difference compares False, so it is 0  *)
UpDirection(diff) ==
    Column([p \in Rows(diff) |-> IF Gt(diff[p], Num(0)) THEN diff[p] ELSE Num(0)])

(* -diff.where(diff < 0, 0.0) *)
DownDirection(diff) ==
    Column([p \in Rows(diff) |->
              Neg(IF Lt(diff[p], Num(0)) THEN diff[p] ELSE Num(0))])

(* one step of the recursion y_(p+1) = ((window - 1) * y_p + x_(p+1)) /    *)
(* window, with y_p = num / den: the numerator of y_(p+1) over den * window *)
EwmStep(num, den, window, xp) == BigAdd(BigMul(num, window - 1), BigMul(den, xp))

(* row p of the average: it has seen p observations (the input has no NaN) *)
(* and is NaN while p < min_periods                                        *)
EwmRow(p, min_periods, num, den) ==
    IF p < min_periods THEN NaN ELSE Quot(num, den)

(* rows p.. of the average, num / den being its value at row p *)
RECURSIVE EwmFrom(_, _, _, _, _, _)
EwmFrom(x, window, min_periods, p, num, den) ==
    IF p = Len(x) THEN <<EwmRow(p, min_periods, num, den)>>
    ELSE <<EwmRow(p, min_periods, num, den)>>
            \o EwmFrom(x, window, min_periods, p + 1,
                       EwmStep(num, den, window, x[p + 1].a.n),
                       BigMul(den, window))

(* Series.ewm(alpha = 1/window, min_periods, adjust = False).mean() on     *)
(* whole numbers: y_1 = x_1                                                *)
Ewm(x, window, min_periods) ==
    IF Len(x) = 0 THEN << >>
    ELSE EwmFrom(x, window, min_periods, 1, BigFromInt(x[1].a.n), BigFromInt(1))

(* emaup / emadn: both have the denominator window^(p-1) *)
RelativeStrength(emaup, emadn) ==
    IF IsNaN(emaup) \/ IsNaN(emadn) THEN NaN
    ELSE IF emadn.n = << >>
    THEN (IF emaup.n = << >> THEN NaN ELSE PInf)
    ELSE Quot(emaup.n, emadn.n)

(* 1 + rs *)
OnePlus(rs) == Quot(BigAdd(rs.d, rs.n), rs.d)

(* 100 / q *)
HundredOver(q) == Quot(BigMul(q.d, 100), q.n)

(* 100 - q, q <= 100 *)
HundredMinus(q) == Quot(BigSub(BigMul(q.d, 100), q.n), q.d)

(* 100 - (100 / (1 + rs)) *)
RsiOf(rs) == IF IsNaN(rs) THEN NaN ELSE HundredMinus(HundredOver(OnePlus(rs)))

(* np.where(emadn == 0, 100, 100 - (100 / (1 + relative_strength))) *)
RsiAt(emaup, emadn) ==
    IF ~IsNaN(emadn) /\ emadn.n = << >>
    THEN Num(100)
    ELSE RsiOf(RelativeStrength(emaup, emadn))

RsiFrom(emaup, emadn) ==
    Column([p \in Rows(emaup) |-> RsiAt(emaup[p], emadn[p])])

RsiOfDiff(diff, window) ==
    RsiFrom(Ewm(UpDirection(diff), window, window),
            Ewm(DownDirection(diff), window, window))

RSIIndicator(close, window) == RsiOfDiff(Diff(close, 1), window)

-----------------------------------------------------------------------------
(* The data frame: its index (one timestamp per row) and its columns.      *)
(* stock.history returns Open, High, Low, Close, Volume, Dividends and     *)
(* Stock Splits; the notebook reads Close alone, which is the column kept. *)

Frame(index, close) ==
    [bound |-> TRUE, index |-> index, cols |-> [c \in {"Close"} |-> close]]

(* `data` before the fetch cell has bound it *)
Unbound == [bound |-> FALSE]

Columns(df) == DOMAIN df.cols

(* df[name] = col *)
SetCol(df, name, col) ==
    [df EXCEPT !.cols = [c \in (DOMAIN df.cols) \cup {name} |->
                            IF c = name THEN col ELSE df.cols[c]]]

(* DataFrame.empty *)
IsEmpty(df) == Len(df.index) = 0

(* the row positions, in order, at which mask is True *)
RECURSIVE SelectFrom(_, _)
SelectFrom(mask, p) ==
    IF p > Len(mask) THEN << >>
    ELSE IF mask[p] THEN <<p>> \o SelectFrom(mask, p + 1)
    ELSE SelectFrom(mask, p + 1)

(* go.Scatter(x = df[mask].index, y = df[mask][name]) *)
Pick(col, rows) == Column([i \in 1 .. Len(rows) |-> col[rows[i]]])

MarkersAt(df, rows, name) ==
    [x |-> Pick(df.index, rows), y |-> Pick(df.cols[name], rows)]

Markers(df, mask, name) == MarkersAt(df, SelectFrom(mask, 1), name)

(* go.Scatter(x = df.index, y = df[name]) *)
Line(df, name) == [x |-> df.index, y |-> df.cols[name]]

-----------------------------------------------------------------------------
(* What stock.history can hand back.  Prices are whole ticks, positive.    *)

MaxLen == 25

Closes(prices) == Column([p \in 1 .. Len(prices) |-> Num(prices[p])])

(* a at rows 1..i, b at row i + 1, c from row i + 2 on *)
Steps(n, i, lv) ==
    [p \in 1 .. n |-> IF p <= i THEN lv[1] ELSE IF p = i + 1 THEN lv[2] ELSE lv[3]]

Shapes ==
    { <<50, 50, 50>>, <<10, 4, 17>>, <<100, 2, 41>>, <<4, 17, 16>>,
      <<10, 4, 16>>, <<10, 16, 10>> }

ChangeRows == {1, 8, 13, 19, 20}

Recorded ==
    { <<100, 102, 101, 105, 104, 108>>,
      <<4, 5, 2, 1, 3, 6, 5, 7, 3, 2, 2, 3, 4, 1, 3, 7, 4, 4, 7, 7>>,
      <<3, 2, 5, 2, 3, 2, 1, 2, 3, 2, 4, 4, 2, 2, 2, 3, 3, 2, 2, 1>> }

PriceLists ==
    {Steps(n, i, lv) : n \in 0 .. MaxLen, i \in ChangeRows, lv \in Shapes}
        \cup Recorded

Days(n) == Column([p \in 1 .. n |-> p])

(* a time-ordered series with a close at every point *)
ValidFrames == {Frame(Days(Len(ps)), Closes(ps)) : ps \in PriceLists}

(* the same closes under a repeated timestamp, under timestamps out of     *)
(* order, and with the close of one point missing                          *)
Flawed ==
    LET ps == Steps(21, 19, <<10, 4, 17>>)
        n  == Len(ps)
    IN  { Frame([p \in 1 .. n |-> IF p = 3 THEN 2 ELSE p], Closes(ps)),
          Frame([p \in 1 .. n |-> IF p = 3 THEN 4 ELSE IF p = 4 THEN 3 ELSE p],
                Closes(ps)),
          Frame(Days(n), [p \in 1 .. n |-> IF p = 3 THEN NaN ELSE Num(ps[p])]) }

HistoryOutcomes ==
    {[raises |-> TRUE, exc |-> e] : e \in {"ConnectionError", "YFRateLimitError"}}
        \cup {[raises |-> FALSE, frame |-> f] : f \in ValidFrames \cup Flawed}

-----------------------------------------------------------------------------
VARIABLES
    data,       \* the notebook's global `data`
    figure,     \* the notebook's global `figure`
    error,      \* the exception that ended the run, or NoError
    stdout,     \* what the cells printed
    executed    \* the cells executed in this run

vars == <<data, figure, error, stdout, executed>>

NoError == "none"

NoDataError == "ValueError: No data returned from Yahoo Finance"

Init ==
    /\ data = Unbound
    /\ figure = Unbound
    /\ error = NoError
    /\ stdout = << >>
    /\ executed = {}

(* A cell can run once the cells it reads from have run, and no cell runs  *)
(* after an uncaught exception: the kernel abandons the rest of the run.   *)
CanRun(cell, needs) ==
    /\ error = NoError
    /\ cell \notin executed
    /\ needs \subseteq executed

(* Variant: the try block without `if data.empty: raise`.  C7 tells it     *)
(* from the code when history returns no rows.                             *)
FetchOutcome_NoEmptyCheck(out) ==
    IF out.raises
    THEN [data |-> Unbound, error |-> out.exc]
    ELSE [data |-> out.frame, error |-> NoError]

(* Variant: a try block that also raises on an index that does not         *)
(* strictly ascend and on a missing close.  C8 tells it from the code on   *)
(* such a frame.                                                           *)
FetchOutcome_Validating(out) ==
    IF out.raises
    THEN [data |-> Unbound, error |-> out.exc]
    ELSE IF IsEmpty(out.frame)
    THEN [data |-> out.frame, error |-> NoDataError]
    ELSE IF \/ \E p \in 1 .. Len(out.frame.index) - 1 :
                   out.frame.index[p] >= out.frame.index[p + 1]
            \/ HasNaN(out.frame.cols["Close"])
    THEN [data |-> out.frame, error |-> "ValueError: invalid series"]
    ELSE [data |-> out.frame, error |-> NoError]

(* try: data = stock.history(...); if data.empty: raise ValueError(...)    *)
(* except Exception as e: print(...); raise                                *)
(* The outcome of the try block: the binding of `data` and the exception   *)
(* raised, if any.  history raising leaves `data` unbound.                 *)
FetchOutcome(out) ==
    IF out.raises
    THEN [data |-> Unbound, error |-> out.exc]
    ELSE IF IsEmpty(out.frame)
    THEN [data |-> out.frame, error |-> NoDataError]
    ELSE [data |-> out.frame, error |-> NoError]

(* print(data.head()) *)
HeadOf(df) ==
    LET n == IF Len(df.index) < 5 THEN Len(df.index) ELSE 5
    IN  [index |-> SubSeq(df.index, 1, n),
         cols |-> [c \in Columns(df) |-> SubSeq(df.cols[c], 1, n)]]

FetchCell ==
    /\ CanRun("fetch", {})
    /\ \E out \in HistoryOutcomes :
        LET res == FetchOutcome(out)
        IN  /\ data' = res.data
            /\ error' = res.error
            /\ stdout' = IF res.error # NoError
                         THEN Append(stdout, <<"Error fetching data: ", res.error>>)
                         ELSE Append(stdout, <<"head", HeadOf(res.data)>>)
    /\ executed' = executed \cup {"fetch"}
    /\ UNCHANGED figure

-----------------------------------------------------------------------------
(* Momentum strategy                                                       *)

(* Variant: the upper RSI limit of a Buy taken as rsi <= 70.  C1 tells it  *)
(* from the code at a row whose RSI is exactly 70.                         *)
SignalAt_RsiUpTo70(m5, rsi) ==
    IF Gt(m5, Num(0)) /\ Gt(rsi, Num(30)) /\ (Lt(rsi, Num(70)) \/ Eq(rsi, Num(70)))
    THEN Num(1)
    ELSE IF Lt(m5, Num(0)) /\ Gt(rsi, Num(70))
    THEN Num(-1)
    ELSE Num(0)

(* np.where((m5 > 0) & (rsi > 30) & (rsi < 70), 1,                         *)
(*          np.where((m5 < 0) & (rsi > 70), -1, 0))                        *)
SignalAt(m5, rsi) ==
    IF Gt(m5, Num(0)) /\ Gt(rsi, Num(30)) /\ Lt(rsi, Num(70))
    THEN Num(1)
    ELSE IF Lt(m5, Num(0)) /\ Gt(rsi, Num(70))
    THEN Num(-1)
    ELSE Num(0)

SignalOf(m5, rsi) == Column([p \in Rows(m5) |-> SignalAt(m5[p], rsi[p])])

(* data['Momentum_1D'] = data['Close'].pct_change(periods=1) *)
SetMomentum1D(df) == SetCol(df, "Momentum_1D", PctChange(df.cols["Close"], 1))

(* data['Momentum_5D'] = data['Close'].pct_change(periods=5) *)
SetMomentum5D(df) == SetCol(df, "Momentum_5D", PctChange(df.cols["Close"], 5))

(* Variant: the RSI taken over a window of 15.  C4 tells it from the code  *)
(* at row 13, the first row whose RSI the code defines.                    *)
SetRSI_Window15(df) == SetCol(df, "RSI", RSIIndicator(df.cols["Close"], 15))

(* data['RSI'] = RSIIndicator(data['Close'], window=14).rsi() *)
SetRSI(df) == SetCol(df, "RSI", RSIIndicator(df.cols["Close"], 14))

(* data['Signal'] = np.where(...) *)
SetSignal(df) ==
    SetCol(df, "Signal", SignalOf(df.cols["Momentum_5D"], df.cols["RSI"]))

(* the four assignments of the momentum cell, in order *)
MomentumColumns(df) == SetSignal(SetRSI(SetMomentum5D(SetMomentum1D(df))))

MomentumCell ==
    /\ CanRun("momentum", {"fetch"})
    /\ data' = MomentumColumns(data)
    /\ executed' = executed \cup {"momentum"}
    /\ UNCHANGED <<figure, error, stdout>>

(* data['Signal'] == v *)
SignalIs(signal, v) == Column([p \in Rows(signal) |-> Eq(signal[p], v)])

(* the traces of the momentum figure *)
MomentumFigure(df) ==
    [title |-> "Algorithmic Trading using Momentum Strategy",
     lines |-> [c \in {"Close", "Momentum_5D"} |-> Line(df, c)],
     buy   |-> Markers(df, SignalIs(df.cols["Signal"], Num(1)), "Close"),
     sell  |-> Markers(df, SignalIs(df.cols["Signal"], Num(-1)), "Close")]

MomentumPlotCell ==
    /\ CanRun("momentum_plot", {"momentum"})
    /\ figure' = MomentumFigure(data)
    /\ executed' = executed \cup {"momentum_plot"}
    /\ UNCHANGED <<data, error, stdout>>

-----------------------------------------------------------------------------
(* Mean reversion strategy                                                 *)

window == 20

(* the literal 1.5 of the band and marker expressions *)
OneAndHalf == Real(Rat(3, 2))

(* Variant: an upper band two deviations above the mean.  C9 tells it from *)
(* the code at a row whose Z-score lies between 3/2 and 2.                 *)
UpperBand_TwoSigma(sma, std) ==
    Column([p \in Rows(sma) |-> Add(sma[p], Mul(std[p], Num(2)))])

(* data['SMA'] + (data['STD'] * 1.5) *)
UpperBand(sma, std) ==
    Column([p \in Rows(sma) |-> Add(sma[p], Mul(std[p], OneAndHalf))])

(* data['SMA'] - (data['STD'] * 1.5) *)
LowerBand(sma, std) ==
    Column([p \in Rows(sma) |-> Sub(sma[p], Mul(std[p], OneAndHalf))])

(* data['SMA'] = data['Close'].rolling(window=window).mean() *)
SetSMA(df) == SetCol(df, "SMA", RollingMean(df.cols["Close"], window))

(* data['STD'] = data['Close'].rolling(window=window).std() *)
SetSTD(df) == SetCol(df, "STD", RollingStd(df.cols["Close"], window))

(* data['Upper'] = data['SMA'] + (data['STD'] * 1.5) *)
SetUpper(df) == SetCol(df, "Upper", UpperBand(df.cols["SMA"], df.cols["STD"]))

(* data['Lower'] = data['SMA'] - (data['STD'] * 1.5) *)
SetLower(df) == SetCol(df, "Lower", LowerBand(df.cols["SMA"], df.cols["STD"]))

(* the assignments of the bands cell, in order *)
BandColumns(df) == SetLower(SetUpper(SetSTD(SetSMA(df))))

BandsCell ==
    /\ CanRun("bands", {"fetch"})
    /\ data' = BandColumns(data)
    /\ executed' = executed \cup {"bands"}
    /\ UNCHANGED <<figure, error, stdout>>

(* Variant: a Z-score that is 0 where STD is 0.  C5 tells it from the code *)
(* over a constant window.                                                 *)
ZScoreOf_ZeroOnFlat(close, sma, std) ==
    Column([p \in Rows(close) |->
              IF Eq(std[p], Num(0)) THEN Num(0)
              ELSE Div(Sub(close[p], sma[p]), std[p])])

(* (data['Close'] - data['SMA']) / data['STD'] *)
ZScoreOf(close, sma, std) ==
    Column([p \in Rows(close) |-> Div(Sub(close[p], sma[p]), std[p])])

(* Variant: a Z-score cell that also writes the Z-score into 'Signal'.     *)
(* C10 tells it from the code when the momentum cell ran first.            *)
ZScoreColumn_IntoSignal(df) ==
    SetCol(SetCol(df, "Z-Score",
                  ZScoreOf(df.cols["Close"], df.cols["SMA"], df.cols["STD"])),
           "Signal", ZScoreOf(df.cols["Close"], df.cols["SMA"], df.cols["STD"]))

ZScoreColumn(df) ==
    SetCol(df, "Z-Score",
           ZScoreOf(df.cols["Close"], df.cols["SMA"], df.cols["STD"]))

ZScoreCell ==
    /\ CanRun("zscore", {"bands"})
    /\ data' = ZScoreColumn(data)
    /\ executed' = executed \cup {"zscore"}
    /\ UNCHANGED <<figure, error, stdout>>

(* Variant: the Buy mask taken as Z-Score <= -1.5.  C2 tells it from the   *)
(* code at a row whose Z-score is exactly -3/2.                            *)
BuyMask_UpTo(z) ==
    Column([p \in Rows(z) |->
              Lt(z[p], Neg(OneAndHalf)) \/ Eq(z[p], Neg(OneAndHalf))])

(* data.loc[data['Z-Score'] < -1.5] *)
BuyMask(z) == Column([p \in Rows(z) |-> Lt(z[p], Neg(OneAndHalf))])

(* data.loc[data['Z-Score'] > 1.5] *)
SellMask(z) == Column([p \in Rows(z) |-> Gt(z[p], OneAndHalf)])

(* the traces of the mean reversion figure *)
MeanReversionFigure(df) ==
    [title |-> "Algorithmic Trading using Mean Reversion Strategy",
     lines |-> [c \in {"Close", "SMA", "Upper", "Lower", "Z-Score"} |-> Line(df, c)],
     buy   |-> Markers(df, BuyMask(df.cols["Z-Score"]), "Close"),
     sell  |-> Markers(df, SellMask(df.cols["Z-Score"]), "Close")]

MeanReversionPlotCell ==
    /\ CanRun("mean_reversion_plot", {"zscore"})
    /\ figure' = MeanReversionFigure(data)
    /\ executed' = executed \cup {"mean_reversion_plot"}
    /\ UNCHANGED <<data, error, stdout>>

-----------------------------------------------------------------------------
Next ==
    \/ FetchCell
    \/ MomentumCell
    \/ MomentumPlotCell
    \/ BandsCell
    \/ ZScoreCell
    \/ MeanReversionPlotCell

Spec == Init /\ [][Next]_vars

-----------------------------------------------------------------------------
(* Vocabulary of the properties                                            *)

Defined(x) == ~IsNaN(x)

Range(f) == {f[i] : i \in DOMAIN f}

Has(name) == data.bound /\ name \in Columns(data)

Col(name) == data.cols[name]

NRows == Len(data.index)

MomentumNames == {"Momentum_1D", "Momentum_5D", "RSI", "Signal"}

MeanReversionNames == {"SMA", "STD", "Upper", "Lower", "Z-Score"}

IndicatorNames == MomentumNames \cup MeanReversionNames

StrictlyAscending(index) ==
    \A p \in 1 .. Len(index) - 1 : index[p] < index[p + 1]

EveryCloseGiven == data.bound /\ ~HasNaN(Col("Close"))

(* a well-formed price series: ordered, unique timestamps, a close each *)
WellFormed == StrictlyAscending(data.index) /\ EveryCloseGiven

MeanReversionPlotted ==
    /\ figure # Unbound
    /\ figure.title = "Algorithmic Trading using Mean Reversion Strategy"

Above(x, q) == Defined(x) /\ Cmp(x, Real(q)) = 1

Below(x, q) == Defined(x) /\ Cmp(x, Real(q)) = -1

-----------------------------------------------------------------------------
(* C1: the momentum signal of a row is Buy (1) exactly when its 5-day      *)
(* momentum is defined and > 0 and its RSI is defined and strictly between *)
(* 30 and 70; Sell (-1) exactly when the momentum is defined and < 0 and   *)
(* the RSI is defined and > 70; Neutral (0) in every other case.           *)
C1_SignalTable ==
    Has("Signal") =>
        \A p \in 1 .. NRows :
            LET m5   == Col("Momentum_5D")[p]
                rsi  == Col("RSI")[p]
                buy  == Above(m5, RatInt(0)) /\ Above(rsi, RatInt(30))
                            /\ Below(rsi, RatInt(70))
                sell == Below(m5, RatInt(0)) /\ Above(rsi, RatInt(70))
            IN  /\ Col("Signal")[p] \in {Num(1), Num(-1), Num(0)}
                /\ Col("Signal")[p] = Num(1) <=> buy
                /\ Col("Signal")[p] = Num(-1) <=> sell
                /\ Col("Signal")[p] = Num(0) <=> ~buy /\ ~sell

(* a frame with a Buy row, and a row that is Neutral only because its RSI  *)
(* is exactly 70 while its momentum is positive                            *)
C1_Witness ==
    /\ Has("Signal")
    /\ \E p \in 1 .. NRows :
          /\ Above(Col("Momentum_5D")[p], RatInt(0))
          /\ Eq(Col("RSI")[p], Num(70))
          /\ Col("Signal")[p] = Num(0)
    /\ \E p \in 1 .. NRows : Col("Signal")[p] = Num(0) /\ IsNaN(Col("RSI")[p])

-----------------------------------------------------------------------------
(* C2: on a series with ordered, unique timestamps the mean-reversion      *)
(* figure marks a timestamp Buy exactly when its Z-score is defined and    *)
(* < -3/2, Sell exactly when it is defined and > 3/2, and leaves it        *)
(* unmarked (Neutral) otherwise; a marker sits at the close of its row.    *)
C2_MeanReversionMarkers ==
    (MeanReversionPlotted /\ StrictlyAscending(data.index)) =>
        \A p \in 1 .. NRows :
            LET z   == Col("Z-Score")[p]
                day == data.index[p]
            IN  /\ day \in Range(figure.buy.x) <=> Below(z, Rat(-3, 2))
                /\ day \in Range(figure.sell.x) <=> Above(z, Rat(3, 2))
                /\ ~(day \in Range(figure.buy.x) /\ day \in Range(figure.sell.x))
                /\ \A i \in DOMAIN figure.buy.x :
                      figure.buy.x[i] = day => figure.buy.y[i] = Col("Close")[p]
                /\ \A i \in DOMAIN figure.sell.x :
                      figure.sell.x[i] = day => figure.sell.y[i] = Col("Close")[p]

(* a figure with a Buy marker, a Sell marker, an unmarked row whose        *)
(* Z-score is undefined and marks that belong to defined Z-scores          *)
C2_Witness ==
    /\ MeanReversionPlotted
    /\ StrictlyAscending(data.index)
    /\ figure.buy.x # << >>
    /\ figure.sell.x # << >>
    /\ \E p \in 1 .. NRows :
          /\ IsNaN(Col("Z-Score")[p])
          /\ data.index[p] \notin Range(figure.buy.x) \cup Range(figure.sell.x)

-----------------------------------------------------------------------------
(* C3: on a series with a close at every point, Momentum_1D is undefined   *)
(* at row 0 and defined from row 1, Momentum_5D is undefined at rows 0..4  *)
(* and defined from row 5, SMA and STD are undefined at rows 0..18 and     *)
(* defined from row 19, and the Z-score is undefined wherever SMA or STD   *)
(* is.  (Row t of the code is position t + 1 here.)                        *)
C3_WarmUp ==
    EveryCloseGiven =>
        \A p \in 1 .. NRows :
            /\ Has("Momentum_1D") => (IsNaN(Col("Momentum_1D")[p]) <=> p - 1 < 1)
            /\ Has("Momentum_5D") => (IsNaN(Col("Momentum_5D")[p]) <=> p - 1 < 5)
            /\ Has("SMA") => (IsNaN(Col("SMA")[p]) <=> p - 1 < 19)
            /\ Has("STD") => (IsNaN(Col("STD")[p]) <=> p - 1 < 19)
            /\ Has("Z-Score") =>
                  (IsNaN(Col("SMA")[p]) \/ IsNaN(Col("STD")[p])
                      => IsNaN(Col("Z-Score")[p]))

(* every indicator computed over a series that runs past each warm-up *)
C3_Witness ==
    /\ EveryCloseGiven
    /\ IndicatorNames \subseteq Columns(data)
    /\ NRows > 20
    /\ Defined(Col("SMA")[20]) /\ IsNaN(Col("SMA")[19])
    /\ Defined(Col("Momentum_5D")[6]) /\ IsNaN(Col("Momentum_5D")[5])

-----------------------------------------------------------------------------
(* C4, as claimed: the RSI is undefined at rows 0..13 and defined from row *)
(* 14 on, and the momentum signal is Neutral at rows 0..13.                *)
C4_AsClaimed ==
    Has("Signal") =>
        \A p \in 1 .. NRows :
            /\ IsNaN(Col("RSI")[p]) <=> p - 1 < 14
            /\ p - 1 < 14 => Col("Signal")[p] = Num(0)

(* C4, amended: the RSI is undefined at rows 0..12 and defined from row 13 *)
(* on (the first difference counts as an observation of 0), and the        *)
(* momentum signal is Neutral at rows 0..12.                               *)
C4_RsiWarmUp ==
    Has("Signal") =>
        \A p \in 1 .. NRows :
            /\ IsNaN(Col("RSI")[p]) <=> p - 1 < 13
            /\ p - 1 < 13 => Col("Signal")[p] = Num(0)

(* a frame whose RSI is defined at row 13, after thirteen undefined rows *)
C4_Witness ==
    /\ Has("Signal")
    /\ NRows >= 15
    /\ IsNaN(Col("RSI")[13])
    /\ Defined(Col("RSI")[14])

-----------------------------------------------------------------------------
(* C5: wherever the close is the same across the whole window ending at a  *)
(* row t >= 19, STD(t) is 0, SMA(t) is that close, the Z-score is          *)
(* undefined (neither an infinity nor an error ending the run), and the    *)
(* row carries no Buy or Sell marker.                                      *)
ConstantWindow(p) ==
    /\ p >= window
    /\ \A q \in (p - window + 1) .. p :
          Defined(Col("Close")[q]) /\ Col("Close")[q] = Col("Close")[p]

C5_ZeroDeviation ==
    Has("Z-Score") =>
        \A p \in 1 .. NRows :
            ConstantWindow(p) =>
                /\ Eq(Col("STD")[p], Num(0))
                /\ Eq(Col("SMA")[p], Col("Close")[p])
                /\ IsNaN(Col("Z-Score")[p])
                /\ error = NoError
                /\ (MeanReversionPlotted /\ StrictlyAscending(data.index)) =>
                      data.index[p] \notin
                          Range(figure.buy.x) \cup Range(figure.sell.x)

(* close = [50]*25 plotted: rows 19..24 have the constant window *)
C5_Witness ==
    /\ MeanReversionPlotted
    /\ Col("Close") = [p \in 1 .. 25 |-> Num(50)]
    /\ \A p \in 20 .. 25 : ConstantWindow(p) /\ IsNaN(Col("Z-Score")[p])
    /\ figure.buy.x = << >> /\ figure.sell.x = << >>

-----------------------------------------------------------------------------
(* C6: what is computed for row t does not depend on the rows after t.     *)
(* For every prefix of the fetched series, each indicator and both signals *)
(* computed over the prefix alone are, at every row of the prefix, the     *)
(* values the full series gives.  (The plot cells leave `data` as it is,   *)
(* so the frames are compared before a figure is drawn.)                   *)
Indicators(index, close) ==
    ZScoreColumn(BandColumns(MomentumColumns(Frame(index, close))))

(* the frame computed over the first m rows against the full columns *)
PrefixAgrees(short, m, fullBuy, fullSell) ==
    /\ \A c \in IndicatorNames : short.cols[c] = SubSeq(Col(c), 1, m)
    /\ BuyMask(short.cols["Z-Score"]) = SubSeq(fullBuy, 1, m)
    /\ SellMask(short.cols["Z-Score"]) = SubSeq(fullSell, 1, m)

AgreesOnPrefix(m, fullBuy, fullSell) ==
    PrefixAgrees(Indicators(SubSeq(data.index, 1, m), SubSeq(Col("Close"), 1, m)),
                 m, fullBuy, fullSell)

AllPrefixesAgree(fullBuy, fullSell) ==
    \A m \in 0 .. NRows : AgreesOnPrefix(m, fullBuy, fullSell)

C6_Causality ==
    (data.bound /\ IndicatorNames \subseteq Columns(data) /\ figure = Unbound) =>
        AllPrefixesAgree(BuyMask(Col("Z-Score")), SellMask(Col("Z-Score")))

(* a series whose last rows carry signals, compared with its prefixes *)
C6_Witness ==
    /\ data.bound /\ IndicatorNames \subseteq Columns(data) /\ figure = Unbound
    /\ NRows > window
    /\ \E p \in 1 .. NRows - 1 : Col("Signal")[p] # Num(0)
    /\ \E p \in 1 .. NRows - 1 : BuyMask(Col("Z-Score"))[p]
    /\ Defined(Col("Z-Score")[NRows])

-----------------------------------------------------------------------------
(* C7: a fetch that raises, or that returns an empty frame, ends the run   *)
(* in an error that is printed and raised again (the empty frame as the    *)
(* ValueError "No data returned from Yahoo Finance"); in such a run only   *)
(* the fetch cell has run, no indicator column exists and no figure is     *)
(* drawn.                                                                  *)
FetchFailed == "fetch" \in executed /\ (~data.bound \/ IsEmpty(data))

C7_FetchFailureSurfaced ==
    /\ FetchFailed => error # NoError
    /\ (data.bound /\ IsEmpty(data)) => error = NoDataError
    /\ error # NoError =>
          /\ FetchFailed
          /\ executed = {"fetch"}
          /\ stdout = << <<"Error fetching data: ", error>> >>
          /\ data.bound => Columns(data) \cap IndicatorNames = {}
          /\ figure = Unbound

(* the run after history returned no rows *)
C7_Witness ==
    /\ data.bound /\ IsEmpty(data)
    /\ error = NoDataError
    /\ executed = {"fetch"}

-----------------------------------------------------------------------------
(* C8, as claimed: a series with a repeated timestamp, with timestamps     *)
(* that do not strictly ascend, or with a point that has no close ends the *)
(* run in an error, and no indicator is computed from it.                  *)
C8_AsClaimed ==
    (data.bound /\ ~WellFormed) =>
        /\ error # NoError
        /\ Columns(data) \cap IndicatorNames = {}

(* C8, amended: the fetch cell rejects an empty frame and nothing else.  A *)
(* non-empty series with a repeated timestamp, with timestamps out of      *)
(* order or with a missing close is accepted without an error, the         *)
(* indicator cells can run on it, and they add their columns to it.        *)
C8_OnlyEmptyRejected ==
    /\ (data.bound /\ ~IsEmpty(data)) => error = NoError
    /\ (data.bound /\ ~WellFormed) =>
          /\ error = NoError
          /\ "momentum" \notin executed => CanRun("momentum", {"fetch"})
          /\ "bands" \notin executed => CanRun("bands", {"fetch"})
          /\ "momentum" \in executed => MomentumNames \subseteq Columns(data)
          /\ "zscore" \in executed => MeanReversionNames \subseteq Columns(data)

(* every indicator computed over a series that repeats a timestamp *)
C8_Witness ==
    /\ data.bound
    /\ ~StrictlyAscending(data.index)
    /\ error = NoError
    /\ IndicatorNames \subseteq Columns(data)
    /\ \E p \in 1 .. NRows : Defined(Col("Z-Score")[p])

-----------------------------------------------------------------------------
(* C9: at every row the Z-score is < -3/2 exactly when the close is below  *)
(* the lower band, and > 3/2 exactly when the close is above the upper     *)
(* band; where STD is 0 or undefined neither side of either holds.         *)
C9_BandsAgree ==
    (Has("Lower") /\ Has("Z-Score")) =>
        \A p \in 1 .. NRows :
            /\ Lt(Col("Z-Score")[p], Neg(OneAndHalf))
                  <=> Lt(Col("Close")[p], Col("Lower")[p])
            /\ Gt(Col("Z-Score")[p], OneAndHalf)
                  <=> Gt(Col("Close")[p], Col("Upper")[p])
            /\ (IsNaN(Col("STD")[p]) \/ Eq(Col("STD")[p], Num(0))) =>
                  /\ ~Lt(Col("Z-Score")[p], Neg(OneAndHalf))
                  /\ ~Lt(Col("Close")[p], Col("Lower")[p])
                  /\ ~Gt(Col("Z-Score")[p], OneAndHalf)
                  /\ ~Gt(Col("Close")[p], Col("Upper")[p])

(* a frame with a row below the lower band, a row above the upper band, a  *)
(* row whose STD is 0 and a row whose STD is undefined                     *)
C9_Witness ==
    /\ Has("Lower") /\ Has("Z-Score")
    /\ \E p \in 1 .. NRows : Lt(Col("Close")[p], Col("Lower")[p])
    /\ \E p \in 1 .. NRows : Gt(Col("Close")[p], Col("Upper")[p])
    /\ \E p \in 1 .. NRows : Eq(Col("STD")[p], Num(0))
    /\ \E p \in 1 .. NRows : IsNaN(Col("STD")[p])

-----------------------------------------------------------------------------
(* C10: the bands cell and the Z-score cell leave the index, Close and the *)
(* momentum columns as they were, the momentum cell leaves the index,      *)
(* Close and the mean-reversion columns as they were, and once every       *)
(* indicator cell has run the frame is the same whichever ran first.       *)
Ran(cells) == executed' # executed /\ (executed' \ executed) \subseteq cells

Kept(names) ==
    /\ data'.index = data.index
    /\ \A c \in names \cap Columns(data) :
          c \in Columns(data') /\ data'.cols[c] = data.cols[c]

C10_Independent ==
    [][ /\ Ran({"bands", "zscore"}) => Kept({"Close"} \cup MomentumNames)
        /\ Ran({"momentum"}) => Kept({"Close"} \cup MeanReversionNames)
        /\ (Ran({"momentum", "zscore"})
                /\ IndicatorNames \subseteq Columns(data')) =>
              data' = Indicators(data.index, data.cols["Close"]) ]_vars

(* both pipelines have written into one frame that carries a momentum      *)
(* signal and a mean-reversion marker                                      *)
C10_Witness ==
    /\ data.bound /\ IndicatorNames \subseteq Columns(data)
    /\ {"momentum", "bands", "zscore"} \subseteq executed
    /\ \E p \in 1 .. NRows : Col("Signal")[p] # Num(0)
    /\ \E p \in 1 .. NRows : SellMask(Col("Z-Score"))[p]

=============================================================================
